---- MODULE Spec2Model ----
(***************************************************************************)
(* Request pipeline of the Marquei backend: trace middleware, Keycloak     *)
(* auth middleware, Yup validation middleware, the Express adapters for    *)
(* middlewares and controllers, and the HTTP response helpers.             *)
(*                                                                         *)
(* JavaScript values are tagged records ([t |-> "string", ...]), so that   *)
(* undefined, strings, numbers, arrays, objects and Error instances stay   *)
(* distinct.  A header string is a sequence of atoms (chars); the atom     *)
(* " " is the space character, every other atom is a run of non-space      *)
(* characters.  The client messages are written without their accents.     *)
(*                                                                         *)
(* jwtVerify (jose) and schema.validate (Yup) are library calls: the first *)
(* is modelled by the results it can settle with, the second by a schema   *)
(* that is a list of field tests.                                          *)
(***************************************************************************)
EXTENDS Integers, Sequences, FiniteSets, TLC

(* ------------------------------ bounds --------------------------------- *)

\* number of requests the server receives in one behaviour
MaxReq == 2

Reqs == 1..MaxReq

(* --------------------------- JavaScript values ------------------------- *)

Undefined == [t |-> "undefined"]
Null == [t |-> "null"]
Txt(s) == [t |-> "string", s |-> s]
Chars(c) == [t |-> "string", chars |-> c]
Num(n) == [t |-> "number", n |-> n]
BoolV(b) == [t |-> "boolean", b |-> b]
Arr(a) == [t |-> "array", a |-> a]
Obj(f) == [t |-> "object", o |-> f]
Uuid(n) == [t |-> "string", uuid |-> n]

EmptyObject == <<>>

\* JavaScript truthiness, as used by `!x`, `x || y` and `.filter(([, v]) => v)`
Truthy(v) ==
  CASE v.t = "undefined" -> FALSE
    [] v.t = "null" -> FALSE
    [] v.t = "boolean" -> v.b
    [] v.t = "number" -> v.n # 0
    [] v.t = "string" ->
         IF "chars" \in DOMAIN v THEN v.chars # <<>>
         ELSE IF "s" \in DOMAIN v THEN v.s # ""
         ELSE TRUE
    [] OTHER -> TRUE

\* property read `obj?.key` on a record or function: undefined when absent
Get(obj, key) == IF key \in DOMAIN obj THEN obj[key] ELSE Undefined

\* property read `value?.key` on a JavaScript value
Prop(v, key) ==
  IF v.t = "object" /\ key \in DOMAIN v.o THEN v.o[key] ELSE Undefined

(* ------------------------------ error kinds ---------------------------- *)

BadRequestError(message, code) ==
  [t |-> "error", name |-> "BadRequestError", statusCode |-> Num(400),
   message |-> message, code |-> code]

ForbiddenError(message, code) ==
  [t |-> "error", name |-> "ForbiddenError", statusCode |-> Num(403),
   message |-> message, code |-> code]

NotFoundError(message, code) ==
  [t |-> "error", name |-> "NotFoundError", statusCode |-> Num(404),
   message |-> message, code |-> code]

InternalServerError(message, code) ==
  [t |-> "error", name |-> "InternalServerError", statusCode |-> Num(500),
   message |-> message, code |-> code]

\* the error express.json() passes on for a body that is not valid JSON
JsonParseError ==
  [t |-> "error", name |-> "SyntaxError", statusCode |-> Num(400),
   message |-> Txt("Unexpected end of JSON input")]

\* an error thrown by the jose library: it has a string code and, for claim
\* validation failures, the name of the claim, but no statusCode
JoseError(code, claim) ==
  [t |-> "error", name |-> "JOSEError", message |-> Txt(code),
   code |-> Txt(code), claim |-> claim]

\* an exception that is not a jose error (e.g. the fetch of the key set
\* failed with a TypeError): message only
PlainError(message) ==
  [t |-> "error", name |-> "TypeError", message |-> Txt(message)]

(* --------------------------- response helpers -------------------------- *)

ok(data) == [statusCode |-> 200, body |-> Obj(data)]

\* variant: the envelope of created carries the status of ok
createdAsOk(data) == [statusCode |-> 200, body |-> Obj(data)]

created(data) == [statusCode |-> 201, body |-> Obj(data)]

noContent == [statusCode |-> 204]

\* variant: an error without status code is reported as a client error
getHttpErrorDefault400(error) ==
  [statusCode |-> IF Truthy(Get(error, "statusCode"))
                  THEN error.statusCode.n ELSE 400,
   code |-> Get(error, "code"),
   body |-> error]

getHttpError(error) ==
  [statusCode |-> IF Truthy(Get(error, "statusCode"))
                  THEN error.statusCode.n ELSE 500,
   code |-> Get(error, "code"),
   body |-> error]

IsSuccess(httpResponse) ==
  httpResponse.statusCode >= 200 /\ httpResponse.statusCode <= 299

(* ------------------------------- logging ------------------------------- *)

\* one call of the logger: level, message and the structured fields
LogRecord(level, msg, data) == [level |-> level, msg |-> msg, data |-> data]

(* --------------------------- trace middleware -------------------------- *)

\* variant: the identifier is generated once and kept for later calls
generateRandomHashCached(issued) == Uuid(1)

\* HashManager.generateRandomHash: randomUUID(), a value no earlier call
\* returned; `issued` is the number of identifiers produced so far
generateRandomHash(issued) == Uuid(issued + 1)

\* variant: the envelope carries the identifier under another key
TraceMiddlewareHandleMisnamed(method, path, traceId) ==
  [response |-> ok([traceID |-> traceId]),
   logs |-> IF path # "/" \/ method # "GET"
            THEN <<LogRecord("info", <<method, " ", path>>,
                             [method |-> Txt(method), path |-> Txt(path),
                              traceId |-> traceId])>>
            ELSE <<>>]

\* variant: the log line is skipped unless both the path and the method differ
TraceMiddlewareHandleBothDiffer(method, path, traceId) ==
  [response |-> ok([traceId |-> traceId]),
   logs |-> IF path # "/" /\ method # "GET"
            THEN <<LogRecord("info", <<method, " ", path>>,
                             [method |-> Txt(method), path |-> Txt(path),
                              traceId |-> traceId])>>
            ELSE <<>>]

\* TraceMiddleware.handle, given the value generateRandomHash() returned
TraceMiddlewareHandle(method, path, traceId) ==
  [response |-> ok([traceId |-> traceId]),
   logs |-> IF path # "/" \/ method # "GET"
            THEN <<LogRecord("info", <<method, " ", path>>,
                             [method |-> Txt(method), path |-> Txt(path),
                              traceId |-> traceId])>>
            ELSE <<>>]

(* ---------------------------- auth middleware -------------------------- *)

RECURSIVE SplitRec(_, _, _)
SplitRec(s, cur, acc) ==
  IF s = <<>> THEN Append(acc, cur)
  ELSE IF Head(s) = " " THEN SplitRec(Tail(s), <<>>, Append(acc, cur))
  ELSE SplitRec(Tail(s), Append(cur, Head(s)), acc)

\* String.prototype.split(' ') on a sequence of atoms
Split(s) == SplitRec(s, <<>>, <<>>)

\* array destructuring `const [a, b] = parts`: element i, or undefined
Element(parts, i) == IF i <= Len(parts) THEN Chars(parts[i]) ELSE Undefined

Bearer == Chars(<<"Bearer">>)

\* results jwtVerify can produce: a verified payload, or a thrown error
Verified(payload) == [threw |-> FALSE, payload |-> payload]
Threw(error) == [threw |-> TRUE, error |-> error]

VerifyOutcomes ==
  { Verified(p) : p \in { EmptyObject,
                          [email |-> Txt("ana@marquei.app")],
                          [sub |-> Txt("user-1")],
                          [sub |-> Txt("user-1"), email |-> Txt("ana@marquei.app")],
                          [sub |-> Txt("user-2"), email |-> Txt("bia@marquei.app")] } }
  \cup
  { Threw(e) : e \in { JoseError("ERR_JWT_EXPIRED", Txt("exp")),
                       JoseError("ERR_JWT_INVALID", Undefined),
                       JoseError("ERR_JWT_CLAIM_VALIDATION_FAILED", Txt("iss")),
                       JoseError("ERR_JWT_CLAIM_VALIDATION_FAILED", Txt("aud")),
                       JoseError("ERR_JWT_CLAIM_VALIDATION_FAILED", Txt("nbf")),
                       JoseError("ERR_JWS_SIGNATURE_VERIFICATION_FAILED", Undefined),
                       JoseError("ERR_JWS_INVALID", Undefined),
                       JoseError("ERR_JWKS_TIMEOUT", Undefined),
                       PlainError("fetch failed") } }

\* variant: `authorization === undefined`, which lets an empty header through
NotProvidedStrict(authorization) == authorization = Undefined

\* `!authorization`
NotProvided(authorization) == ~Truthy(authorization)

\* variant: the scheme is checked, the token is not
InvalidFormatSchemeOnly(authPrefix, authToken) == authPrefix # Bearer

\* `authPrefix !== 'Bearer' || !authToken`
InvalidFormat(authPrefix, authToken) == authPrefix # Bearer \/ ~Truthy(authToken)

\* AuthClientKeycloakMiddleware.handle up to the call of jwtVerify: either it
\* has returned an envelope, or it is suspended with authToken handed to jwtVerify
AuthClientBeforeVerify(data, locals) ==
  LET traceId == Get(locals, "traceId")
      authorization == data.authorization
      parts == Split(authorization.chars)
      authPrefix == Element(parts, 1)
      authToken == Element(parts, 2)
  IN IF NotProvided(authorization)
     THEN [returned |-> TRUE,
           logs |-> <<LogRecord("warn", <<"Authorization header not provided.">>,
                                [traceId |-> traceId])>>,
           response |-> getHttpError(
              ForbiddenError(Txt("Token de autorizacao nao fornecido"), Num(3001)))]
     ELSE IF InvalidFormat(authPrefix, authToken)
     THEN [returned |-> TRUE,
           logs |-> <<LogRecord("warn", <<"Invalid authorization header format.">>,
                                [traceId |-> traceId])>>,
           response |-> getHttpError(
              ForbiddenError(Txt("Formato de token invalido"), Num(3002)))]
     ELSE [returned |-> FALSE, logs |-> <<>>, authToken |-> authToken]

claimMessage(error) ==
  IF Get(error, "claim") = Txt("iss")
  THEN Txt("Token invalido: issuer nao corresponde")
  ELSE IF Get(error, "claim") = Txt("aud")
  THEN Txt("Token invalido: audience nao corresponde")
  ELSE [t |-> "string", s |-> "Token invalido: validacao de claims falhou",
        arg |-> IF Truthy(Get(error, "claim")) THEN error.claim
                ELSE Txt("desconhecido")]

\* variant: only a null subject counts as missing
MissingSubjectNullOnly(clientId) == clientId = Null

\* `!clientId`
MissingSubject(clientId) == ~Truthy(clientId)

\* variant: the e-mail claim is stored as the client's id
ClientOfEmailAsId(payload) ==
  Obj([id |-> Get(payload, "email"),
       email |-> Get(payload, "email"),
       anotherVarsHere |-> Get(payload, "anotherVarsHere")])

\* the client identity built from a verified payload
ClientOf(payload) ==
  Obj([id |-> Get(payload, "sub"),
       email |-> Get(payload, "email"),
       anotherVarsHere |-> Get(payload, "anotherVarsHere")])

\* variant: every thrown error is answered with the catch-all
VerificationFailureCatchAll(error) ==
  ForbiddenError(Txt("Nao autorizado"), Num(3007))

\* variant: the thrown error itself is handed to getHttpError
VerificationFailureRaw(error) == error

\* the catch block's mapping of a thrown error to a Forbidden error
VerificationFailure(error) ==
  IF Get(error, "code") = Txt("ERR_JWT_EXPIRED")
  THEN ForbiddenError(Txt("Token expirado"), Num(3004))
  ELSE IF Get(error, "code") = Txt("ERR_JWT_INVALID")
  THEN ForbiddenError(Txt("Token invalido"), Num(3005))
  ELSE IF Get(error, "code") = Txt("ERR_JWT_CLAIM_VALIDATION_FAILED")
  THEN ForbiddenError(claimMessage(error), Num(3006))
  ELSE ForbiddenError(Txt("Nao autorizado"), Num(3007))

\* variant: the catch block logs the error without the trace id
VerificationFailureLogNoTrace(traceId, error) ==
  LogRecord("error", <<"JWT verification failed.">>,
            [errorMessage |-> Get(error, "message"),
             errorCode |-> Get(error, "code")])

\* the log call of the catch block
VerificationFailureLog(traceId, error) ==
  LogRecord("error", <<"JWT verification failed.">>,
            [traceId |-> traceId,
             errorMessage |-> Get(error, "message"),
             errorCode |-> Get(error, "code")])

\* the rest of AuthClientKeycloakMiddleware.handle, once jwtVerify has settled
AuthClientAfterVerify(locals, outcome) ==
  LET traceId == Get(locals, "traceId")
  IN IF ~outcome.threw
     THEN LET payload == outcome.payload
              clientId == Get(payload, "sub")
          IN IF MissingSubject(clientId)
             THEN [logs |-> <<LogRecord("warn", <<"Token payload missing subject (sub).">>,
                                        [traceId |-> traceId])>>,
                   response |-> getHttpError(
                      ForbiddenError(
                        Txt("Token invalido: identificador do cliente nao encontrado"),
                        Num(3003)))]
             ELSE [logs |-> <<>>,
                   response |-> ok([client |-> ClientOf(payload)])]
     ELSE [logs |-> <<VerificationFailureLog(traceId, outcome.error)>>,
           response |-> getHttpError(VerificationFailure(outcome.error))]

(* ------------------------- validation middleware ----------------------- *)

\* a Yup object schema: the tests of its fields, in declaration order
YupSchema(rules) == [t |-> "yup", rules |-> rules]

Rule(path, test, message) == [path |-> path, test |-> test, message |-> message]

\* the schema of the validated route: body.name required, body.email an
\* e-mail address, params.id required
CreateItemSchema ==
  YupSchema(<< Rule(<<"body", "name">>, "required", "body.name is a required field"),
               Rule(<<"body", "email">>, "email", "body.email must be a valid email"),
               Rule(<<"params", "id">>, "required", "params.id is a required field") >>)

ValidEmails == { Txt("ana@marquei.app") }

FieldAt(value, path) == Get(value[path[1]], path[2])

\* one Yup test on one field value
Passes(rule, v) ==
  CASE rule.test = "required" -> v.t # "undefined" /\ v.t # "null" /\ v # Txt("")
    [] rule.test = "email" -> v.t = "undefined" \/ v \in ValidEmails
    [] OTHER -> TRUE

RECURSIVE Violations(_, _)
\* the messages of the violated rules, in schema order
Violations(rules, value) ==
  IF rules = <<>> THEN <<>>
  ELSE LET rest == Violations(Tail(rules), value)
       IN IF Passes(Head(rules), FieldAt(value, Head(rules).path))
          THEN rest ELSE <<Head(rules).message>> \o rest

\* schema.validate(value, options): resolves, or throws a ValidationError whose
\* `errors` lists every violation (abortEarly false) or the first one only;
\* on a value that is not a schema the call itself throws a TypeError
YupValidate(schema, value, options) ==
  IF schema.t # "yup"
  THEN Threw(PlainError("schema.validate is not a function"))
  ELSE LET errs == Violations(schema.rules, value)
       IN IF errs = <<>> THEN [threw |-> FALSE]
          ELSE Threw([t |-> "error", name |-> "ValidationError",
                      message |-> Txt(errs[1]),
                      errors |-> Arr(IF options.abortEarly THEN <<errs[1]>> ELSE errs)])

\* variant: Yup's default, which stops at the first violation
ValidateOptionsDefault == [abortEarly |-> TRUE]

\* the options object passed to schema.validate
ValidateOptions == [abortEarly |-> FALSE]

\* variant: schema.validate is not awaited, so its rejection is never caught
ValidateRequestMiddlewareHandleNoAwait(data) == ok([validated |-> BoolV(TRUE)])

\* ValidateRequestMiddleware.handle
ValidateRequestMiddlewareHandle(data) ==
  LET result == YupValidate(data.schema,
                            [body |-> data.body, params |-> data.params,
                             query |-> data.query],
                            ValidateOptions)
  IN IF ~result.threw
     THEN ok([validated |-> BoolV(TRUE)])
     ELSE getHttpError(BadRequestError(Get(result.error, "errors"), Undefined))

(* -------------------------------- adapters ----------------------------- *)

\* res.status(status).json(body)
Json(status, body) == [status |-> status, type |-> "json", body |-> body]

\* res.status(status).send(text)
Send(status, text) == [status |-> status, type |-> "text", body |-> Txt(text)]

\* what Express answers when no route matches the method and path
CannotMatch(method, path) ==
  [status |-> 404, type |-> "html", body |-> Txt("Cannot " \o method \o " " \o path)]

\* variant: the message is read from the body whatever the body is
ErrorShapeMessageOnly(httpResponse) ==
  Obj([message |-> Get(Get(httpResponse, "body"), "message"),
       code |-> Get(httpResponse, "code")])

\* the {message, code} body both adapters write for a non-2xx envelope
ErrorShape(httpResponse) ==
  Obj([message |-> IF Get(httpResponse, "body").t = "error"
                   THEN Get(httpResponse.body, "message")
                   ELSE Get(httpResponse, "body"),
       code |-> Get(httpResponse, "code")])

\* `data` built by adaptMiddleware from the Express request
MiddlewareData(req, schema) ==
  [authorization |-> req.authorization,
   body |-> req.body, params |-> req.params, query |-> req.query,
   schema |-> IF schema.t = "undefined" THEN Obj(EmptyObject) ELSE schema]

\* variant: every entry of the envelope body, whatever its value
ValidEntriesUnfiltered(httpResponse) ==
  LET body == Get(httpResponse, "body")
  IN IF body.t = "object" THEN body.o ELSE EmptyObject

\* entries of the envelope body with truthy values
ValidEntries(httpResponse) ==
  LET body == Get(httpResponse, "body")
      entries == IF body.t = "object" THEN body.o ELSE EmptyObject
  IN [k \in {key \in DOMAIN entries : Truthy(entries[key])} |-> entries[k]]

\* variant: the locals are replaced by the entries instead of extended
SpreadReplace(locals, entries) == entries

\* { ...locals, ...entries }
Spread(locals, entries) ==
  [k \in DOMAIN locals \cup DOMAIN entries |->
     IF k \in DOMAIN entries THEN entries[k] ELSE locals[k]]

\* variant: the failure branch writes the response and still calls next()
adaptMiddlewareFallThrough(httpResponse, locals) ==
  IF IsSuccess(httpResponse)
  THEN [locals |-> Spread(locals, ValidEntries(httpResponse)),
        next |-> TRUE, written |-> <<>>]
  ELSE [locals |-> locals, next |-> TRUE,
        written |-> <<Json(httpResponse.statusCode, ErrorShape(httpResponse))>>]

\* what the handler returned by adaptMiddleware does with the envelope:
\* the new locals, whether next() is called, the responses written
adaptMiddleware(httpResponse, locals) ==
  IF IsSuccess(httpResponse)
  THEN [locals |-> Spread(locals, ValidEntries(httpResponse)),
        next |-> TRUE, written |-> <<>>]
  ELSE [locals |-> locals, next |-> FALSE,
        written |-> <<Json(httpResponse.statusCode, ErrorShape(httpResponse))>>]

\* variant: the failure branches are not chained to the 2xx branch with else
adaptRouteUnchained(httpResponse) ==
  (IF IsSuccess(httpResponse)
   THEN <<Json(httpResponse.statusCode, Get(httpResponse, "body"))>>
   ELSE <<>>)
  \o <<Json(httpResponse.statusCode, ErrorShape(httpResponse))>>

\* what the handler returned by adaptRoute writes for the envelope
adaptRoute(httpResponse) ==
  IF IsSuccess(httpResponse)
  THEN <<Json(httpResponse.statusCode, Get(httpResponse, "body"))>>
  ELSE <<Json(httpResponse.statusCode, ErrorShape(httpResponse))>>

(* ------------------------- controller and service ---------------------- *)

\* HealthCheckService.run: logs with the traceId it was given, returns true
HealthCheckServiceRun(params) ==
  [logs |-> <<LogRecord("info", <<"Health check called.">>,
                        [traceId |-> params.traceId])>>,
   content |-> BoolV(TRUE)]

\* variant: the traceId is read from the client record
ServiceParamsClientTrace(locals) ==
  [clientId |-> Prop(Get(locals, "client"), "id"),
   traceId |-> Prop(Get(locals, "client"), "traceId")]

\* the params HealthCheckController.handle passes to the service
ServiceParams(locals) ==
  [clientId |-> Prop(Get(locals, "client"), "id"),
   traceId |-> Get(locals, "traceId")]

\* HealthCheckController.handle
HealthCheckControllerHandle(locals) ==
  LET run == HealthCheckServiceRun(ServiceParams(locals))
  IN [logs |-> run.logs, response |-> ok([content |-> run.content])]

\* a call that settled with a value
Resolved(content) == [threw |-> FALSE, content |-> content]

\* the controller generated for a module, given what its service's run()
\* settled with
ModuleControllerHandle(result) ==
  IF result.threw THEN getHttpError(result.error)
  ELSE ok([content |-> result.content])

\* variant: the request data is spread after clientId and traceId
ModuleServiceParamsDataLast(data, locals) ==
  [k \in DOMAIN data \cup {"clientId", "traceId"} |->
     IF k \in DOMAIN data THEN data[k]
     ELSE IF k = "clientId" THEN Prop(Get(locals, "client"), "id")
     ELSE Get(locals, "traceId")]

\* BaseService.log: one log record carrying the traceId stored on the instance
BaseServiceLog(level, msg, traceId) ==
  LogRecord(level, <<msg>>, [traceId |-> traceId])

\* variant: the factory hands out one shared instance
makeModuleServiceShared(made) == 1

\* the service factory: `new` on every call, so an instance no earlier call
\* returned; `made` is the number of instances made so far
makeModuleService(made) == made + 1

\* the params the generated controller passes to the service
ModuleServiceParams(data, locals) ==
  [k \in DOMAIN data \cup {"clientId", "traceId"} |->
     IF k = "clientId" THEN Prop(Get(locals, "client"), "id")
     ELSE IF k = "traceId" THEN Get(locals, "traceId")
     ELSE data[k]]

(* ------------------------- top-level error handler --------------------- *)

Nullish(v) == v.t \in {"undefined", "null"}

\* App.errorHandler: the responses it writes and the records it logs
errorHandler(envMode, error) ==
  IF envMode # "development" /\ Truthy(Get(error, "statusCode"))
  THEN [written |-> <<Json(error.statusCode.n,
                           Obj([error |-> IF Nullish(Get(error, "message"))
                                          THEN Txt("unknown")
                                          ELSE error.message]))>>,
        logs |-> <<>>]
  ELSE [written |-> <<Json(500, Obj([error |-> Txt("Internal Server Error")]))>>,
        logs |-> <<LogRecord("error", <<"Internal Server Error">>,
                             [error |-> error])>>]

(* ------------------------ obfuscation of log data ---------------------- *)

\* '*'.repeat(n)
RECURSIVE Repeat(_)
Repeat(n) == IF n <= 0 THEN "" ELSE "*" \o Repeat(n - 1)

\* number of decimal digits of a natural number
RECURSIVE Digits(_)
Digits(n) == IF n < 10 THEN 1 ELSE 1 + Digits(n \div 10)

\* the property names Object.entries gives the elements of an array
IndexKeys == <<"0", "1", "2">>

\* String(value).length
RECURSIVE StringLength(_)
StringLength(v) ==
  CASE v.t = "undefined" -> 9
    [] v.t = "null" -> 4
    [] v.t = "boolean" -> IF v.b THEN 4 ELSE 5
    [] v.t = "number" -> Digits(v.n)
    [] v.t = "string" -> Len(v.s)
    [] v.t = "array" ->
         IF v.a = <<>> THEN 0
         ELSE IF Len(v.a) = 1 THEN StringLength(v.a[1])
         ELSE StringLength(v.a[1]) + 1 + StringLength(Arr(Tail(v.a)))
    [] OTHER -> 15

\* Object.entries(value), as a function from property name to value
Entries(v) ==
  CASE v.t = "object" -> v.o
    [] v.t = "array" -> [k \in {IndexKeys[i] : i \in 1..Len(v.a)} |->
                          v.a[CHOOSE i \in 1..Len(v.a) : IndexKeys[i] = k]]
    [] OTHER -> EmptyObject

\* typeof value === 'object'
TypeofObject(v) == v.t \in {"object", "array", "null", "error"}

\* findChildren: the entries of children with the listed, truthy ones masked
\* and the object-typed ones treated in turn, gathered by Object.fromEntries
RECURSIVE findChildren(_, _)
findChildren(children, wordsToOfuscate) ==
  IF ~Truthy(children) THEN children
  ELSE LET entries == Entries(children)
           Masked(k) == IF k \in wordsToOfuscate /\ Truthy(entries[k])
                        THEN Txt(Repeat(StringLength(entries[k])))
                        ELSE entries[k]
       IN Obj([k \in DOMAIN entries |->
                 IF TypeofObject(Masked(k))
                 THEN findChildren(Masked(k), wordsToOfuscate)
                 ELSE Masked(k)])

\* JSON.parse(JSON.stringify(value)): undefined properties are dropped,
\* undefined array elements become null
RECURSIVE JsonRoundTrip(_)
JsonRoundTrip(v) ==
  CASE v.t = "object" ->
         Obj([k \in {key \in DOMAIN v.o : v.o[key].t # "undefined"} |->
                JsonRoundTrip(v.o[k])])
    [] v.t = "array" ->
         Arr([i \in 1..Len(v.a) |->
                IF v.a[i].t = "undefined" THEN Null ELSE JsonRoundTrip(v.a[i])])
    [] OTHER -> v

obfuscateInformationInObjectDynamic(target, words) ==
  JsonRoundTrip(findChildren(target, words))

(* --------------------------------- state ------------------------------- *)

VARIABLES
  build,      \* which health-check route file the build mounts
  mode,       \* ApplicationEnv.mode (NODE_ENV)
  escaped,    \* per request: the exception on its way to the error handler
  nextUuid,   \* the number of identifiers randomUUID() has produced
  pc,         \* per request: the stage about to run
  request,    \* per request: the Express request as received
  pos,        \* per request: index of the current stage in the route's chain
  locals,     \* per request: req.locals
  verdict,    \* per request: what jwtVerify settled with
  invoked,    \* per request: the handlers invoked so far, in order
  outcomes,   \* per request: per adapted stage, the envelope and what the adapter did
  sent,       \* per request: the HTTP responses written
  log,        \* per request: the log records its handlers emitted
  serviceCalls, \* per request: the params its controller passed to the service
  jwtInput,   \* per request: the token handed to jwtVerify
  traceIdOf,  \* per service instance: the traceId it stores on itself
  serving,    \* per request: the service instance its controller obtained
  server,     \* the process and its HTTP server, from start to exit
  registered, \* whether the route files have registered their handlers
  exitCode,   \* process.exitCode
  pending,    \* the requests that were in flight when server.close() was called
  call,       \* the helper called and its arguments (helper calls only)
  ret         \* what the helper returned

\* the state of the request pipeline
pipeline == <<build, mode, escaped, nextUuid, pc, request, pos, locals, verdict,
              invoked, outcomes, sent, log, serviceCalls, jwtInput,
              traceIdOf, serving>>

\* the service instances
services == <<traceIdOf, serving>>

\* the state of a helper call
helper == <<call, ret>>

\* the state of the process
lifecycle == <<server, registered, exitCode, pending>>

vars == <<pipeline, helper, lifecycle>>

\* a process that has started, listens and has every route registered
Serving ==
  /\ server = "listening"
  /\ registered = TRUE
  /\ exitCode = 0
  /\ pending = {}

NoRequest == [route |-> "none"]
NoVerdict == [pending |-> TRUE]
NoError == [t |-> "none"]
NoCall == [fn |-> "none"]
NoResult == [t |-> "none"]

(* --------------------------------- inputs ------------------------------ *)

\* Authorization header values (undefined: the header is absent)
AuthorizationValues ==
  { Undefined,
    Chars(<<>>),
    Chars(<<"Bearer">>),
    Chars(<<"Bearer", " ">>),
    Chars(<<"Token", " ", "abc">>),
    Chars(<<"bearer", " ", "jwt">>),
    Chars(<<"Bearer", " ", "jwt">>),
    Chars(<<"Bearer", " ", " ", "jwt">>),
    Chars(<<"Bearer", " ", "jwt", " ", "x">>) }

Bodies ==
  { [name |-> n, email |-> e] : n \in {Undefined, Txt("Corte")},
                                e \in {Txt("not-an-email"), Txt("ana@marquei.app")} }

ParamsValues == { EmptyObject, [id |-> Txt("7")] }

HttpRequest(method, path, route, authorization, body, params) ==
  [method |-> method, path |-> path, route |-> route,
   authorization |-> authorization, body |-> body, params |-> params,
   query |-> EmptyObject]

Requests ==
  { HttpRequest("GET", "/", "root", Undefined, EmptyObject, EmptyObject) }
  \cup { HttpRequest("POST", "/", "unmatched", Undefined, EmptyObject, EmptyObject) }
  \cup { HttpRequest("GET", "/api/v1/health", "health", a, EmptyObject, EmptyObject) :
           a \in AuthorizationValues }
  \cup { HttpRequest("POST", "/api/v1/items", "items", Undefined, b, p) :
           b \in Bodies, p \in ParamsValues }
  \cup { HttpRequest("POST", "/api/v1/raw", "raw", Undefined, b, EmptyObject) :
           b \in Bodies }

\* the requests that arrive while an earlier one is in flight: one per route
Traffic ==
  { HttpRequest("GET", "/", "root", Undefined, EmptyObject, EmptyObject),
    HttpRequest("GET", "/api/v1/health", "health", Chars(<<"Bearer", " ", "jwt">>),
                EmptyObject, EmptyObject),
    HttpRequest("POST", "/api/v1/items", "items", Undefined,
                [name |-> Undefined, email |-> Txt("not-an-email")], [id |-> Txt("7")]) }

\* the first request of a behaviour ranges over every input, the later ones
\* over Traffic
Arriving(r) == IF r = 1 THEN Requests ELSE Traffic

\* a request payload express.json() cannot parse
Unparsable == [t |-> "unparsable"]

\* requests to a route built from two adapted middlewares and the adapted
\* controller of a generated module
Exchanges ==
  { HttpRequest("POST", "/api/v1/custom", "custom", Undefined, b, EmptyObject) :
      b \in {[name |-> Txt("Corte")], Unparsable} }

\* the same request with client-supplied fields named clientId and traceId
Spoofed ==
  HttpRequest("POST", "/api/v1/custom", "custom", Undefined,
              [name |-> Txt("Corte"), clientId |-> Txt("admin"),
               traceId |-> Txt("forged")], EmptyObject)

\* the first request ranges over every input, the second over Exchanges, the
\* later ones are the request without forged fields
ExchangesOf(r) ==
  IF r = 1 THEN Exchanges \cup {Spoofed}
  ELSE IF r = 2 THEN Exchanges
  ELSE { q \in Exchanges : q.body # Unparsable }

\* a handle() call that settled with an envelope
Returned(httpResponse) == [threw |-> FALSE, response |-> httpResponse]

\* what the handle() of a middleware can settle with: 2xx envelopes whose
\* bodies hold truthy and falsy entries, failure envelopes whose body is an
\* Error or a plain value, or an exception
MiddlewareResults ==
  { Returned(ok([foo |-> Txt("bar"), baz |-> Null])),
    Returned(ok([foo |-> Txt(""), baz |-> Txt("qux")])),
    Returned(created([foo |-> Num(0), baz |-> BoolV(TRUE), qux |-> Undefined,
                      off |-> BoolV(FALSE),
                      client |-> Obj([id |-> Txt("user-1")])])),
    Returned(noContent),
    Returned(getHttpError(BadRequestError(Txt("Requisicao invalida"), Num(1001)))),
    Returned([statusCode |-> 409, code |-> Num(1005), body |-> Txt("conflict")]),
    Threw(PlainError("boom")),
    Threw(BadRequestError(Txt("Requisicao invalida"), Num(1001))) }

\* the first request ranges over every result, the second over two, the
\* later ones pass the middleware
MiddlewareResultsOf(r) ==
  IF r = 1 THEN MiddlewareResults
  ELSE IF r = 2 THEN { Returned(ok([foo |-> Txt("bar"), baz |-> Null])),
                       Threw(PlainError("boom")) }
  ELSE { Returned(ok([foo |-> Txt("bar"), baz |-> Null])) }

\* what the run() of a module's service can settle with: its response, one
\* of the custom errors, or an exception of another kind
ServiceResults ==
  { Resolved(Obj(EmptyObject)),
    Threw(BadRequestError(Txt("Requisicao invalida"), Num(1001))),
    Threw(NotFoundError(Txt("Recurso nao encontrado"), Num(1002))),
    Threw(ForbiddenError(Txt("Acesso negado"), Num(1003))),
    Threw(InternalServerError(Txt("Erro interno do servidor"), Num(1004))),
    Threw(PlainError("boom")),
    Threw(Txt("timeout")) }

ServiceResultsOf(r) ==
  IF r = 1 THEN ServiceResults
  ELSE IF r = 2 THEN { Resolved(Obj(EmptyObject)),
                       Threw(NotFoundError(Txt("Recurso nao encontrado"), Num(1002))) }
  ELSE { Resolved(Obj(EmptyObject)) }

(* --------------------------------- routes ------------------------------ *)

\* the stages Express runs for a route after the global trace middleware
Chain(route) ==
  CASE route = "root" -> <<"probe">>
    [] route = "unmatched" -> <<"notFound">>
    [] route = "health" -> IF ~registered THEN <<"notFound">>
                           ELSE IF build = "protected" THEN <<"auth", "controller">>
                           ELSE <<"controller">>
    [] route = "items" -> <<"validate", "controller">>
    [] route = "raw" -> <<"validate", "controller">>
    [] route = "custom" -> <<"custom", "custom", "module">>

\* the schema the route's validation adapter was built with
SchemaOf(route) == IF route = "items" THEN CreateItemSchema ELSE Undefined

(* --------------------------------- actions ----------------------------- *)

Init ==
  /\ build \in {"public", "protected"}
  /\ mode = "development"
  /\ escaped = [r \in Reqs |-> NoError]
  /\ nextUuid = 0
  /\ pc = [r \in Reqs |-> "idle"]
  /\ request = [r \in Reqs |-> NoRequest]
  /\ pos = [r \in Reqs |-> 0]
  /\ locals = [r \in Reqs |-> EmptyObject]
  /\ verdict = [r \in Reqs |-> NoVerdict]
  /\ invoked = [r \in Reqs |-> <<>>]
  /\ outcomes = [r \in Reqs |-> <<>>]
  /\ sent = [r \in Reqs |-> <<>>]
  /\ log = [r \in Reqs |-> <<>>]
  /\ serviceCalls = [r \in Reqs |-> <<>>]
  /\ jwtInput = [r \in Reqs |-> Undefined]
  /\ traceIdOf = [i \in Reqs |-> Undefined]
  /\ serving = [r \in Reqs |-> 0]
  /\ call = NoCall
  /\ ret = NoResult
  /\ Serving

\* the stage that runs after stage number p of request r called next()
StageAfter(r, p) ==
  IF p + 1 <= Len(Chain(request[r].route)) THEN Chain(request[r].route)[p + 1]
  ELSE "done"

\* variant: the adapter keeps the merged locals in one object shared by
\* every request
AdaptedMiddlewareSharedLocals(r, stage, httpResponse, logs) ==
  LET act == adaptMiddleware(httpResponse, locals[r])
  IN /\ locals' = [q \in Reqs |-> act.locals]
     /\ sent' = [sent EXCEPT ![r] = @ \o act.written]
     /\ log' = [log EXCEPT ![r] = @ \o logs]
     /\ outcomes' = [outcomes EXCEPT ![r] =
          Append(@, [stage |-> stage, response |-> httpResponse,
                     next |-> act.next, wrote |-> act.written # <<>>,
                     before |-> locals[r], after |-> act.locals,
                     written |-> act.written])]
     /\ IF act.next
        THEN /\ pos' = [pos EXCEPT ![r] = @ + 1]
             /\ pc' = [pc EXCEPT ![r] = StageAfter(r, pos[r])]
        ELSE /\ pos' = pos
             /\ pc' = [pc EXCEPT ![r] = "done"]

\* bookkeeping shared by the middleware actions: the adapter acts on the
\* envelope the middleware returned
AdaptedMiddleware(r, stage, httpResponse, logs) ==
  LET act == adaptMiddleware(httpResponse, locals[r])
  IN /\ locals' = [locals EXCEPT ![r] = act.locals]
     /\ sent' = [sent EXCEPT ![r] = @ \o act.written]
     /\ log' = [log EXCEPT ![r] = @ \o logs]
     /\ outcomes' = [outcomes EXCEPT ![r] =
          Append(@, [stage |-> stage, response |-> httpResponse,
                     next |-> act.next, wrote |-> act.written # <<>>,
                     before |-> locals[r], after |-> act.locals,
                     written |-> act.written])]
     /\ IF act.next
        THEN /\ pos' = [pos EXCEPT ![r] = @ + 1]
             /\ pc' = [pc EXCEPT ![r] = StageAfter(r, pos[r])]
        ELSE /\ pos' = pos
             /\ pc' = [pc EXCEPT ![r] = "done"]

\* a request reaches the server; requests are numbered in order of arrival
Arrive(r) ==
  /\ pc[r] = "idle"
  /\ r > 1 => pc[r - 1] # "idle"
  /\ \E q \in Arriving(r) : request' = [request EXCEPT ![r] = q]
  /\ pc' = [pc EXCEPT ![r] = "trace"]
  /\ UNCHANGED <<lifecycle, helper, services, jwtInput>>
  /\ UNCHANGED <<build, mode, escaped, nextUuid, pos, locals, verdict,
                 invoked, outcomes, sent, log, serviceCalls>>

\* app.use(trace): the adapted TraceMiddleware
Trace(r) ==
  /\ pc[r] = "trace"
  /\ LET traceId == generateRandomHash(nextUuid)
         h == TraceMiddlewareHandle(request[r].method, request[r].path, traceId)
     IN AdaptedMiddleware(r, "trace", h.response, h.logs)
  /\ nextUuid' = nextUuid + 1
  /\ invoked' = [invoked EXCEPT ![r] = Append(@, "trace")]
  /\ UNCHANGED <<lifecycle, helper, services, jwtInput>>
  /\ UNCHANGED <<build, mode, escaped, request, verdict, serviceCalls>>

\* app.get('/'): the liveness probe
Probe(r) ==
  /\ pc[r] = "probe"
  /\ sent' = [sent EXCEPT ![r] = Append(@, Send(200, "ok"))]
  /\ invoked' = [invoked EXCEPT ![r] = Append(@, "probe")]
  /\ pc' = [pc EXCEPT ![r] = "done"]
  /\ UNCHANGED <<lifecycle, helper, services, jwtInput>>
  /\ UNCHANGED <<build, mode, escaped, nextUuid, request, pos, locals,
                 verdict, outcomes, log, serviceCalls>>

\* no route matches: Express ends the exchange itself
NotFound(r) ==
  /\ pc[r] = "notFound"
  /\ sent' = [sent EXCEPT ![r] =
       Append(@, CannotMatch(request[r].method, request[r].path))]
  /\ invoked' = [invoked EXCEPT ![r] = Append(@, "notFound")]
  /\ pc' = [pc EXCEPT ![r] = "done"]
  /\ UNCHANGED <<lifecycle, helper, services, jwtInput>>
  /\ UNCHANGED <<build, mode, escaped, nextUuid, request, pos, locals,
                 verdict, outcomes, log, serviceCalls>>

\* authClientKeycloak, from its invocation to its return or to the await of jwtVerify
Auth(r) ==
  /\ pc[r] = "auth"
  /\ LET h == AuthClientBeforeVerify(
                 MiddlewareData(request[r], Undefined), locals[r])
     IN IF h.returned
        THEN /\ AdaptedMiddleware(r, "auth", h.response, h.logs)
             /\ invoked' = [invoked EXCEPT ![r] = Append(@, "auth")]
             /\ jwtInput' = jwtInput
        ELSE /\ pc' = [pc EXCEPT ![r] = "verify"]
             /\ invoked' = [invoked EXCEPT ![r] = @ \o <<"auth", "jwtVerify">>]
             /\ jwtInput' = [jwtInput EXCEPT ![r] = h.authToken]
             /\ UNCHANGED <<pos, locals, outcomes, sent, log>>
  /\ UNCHANGED <<lifecycle, helper, services, build, mode, escaped, nextUuid, request, verdict, serviceCalls>>

\* jwtVerify settles and authClientKeycloak runs to its return
Verify(r) ==
  /\ pc[r] = "verify"
  /\ \E outcome \in VerifyOutcomes :
       /\ verdict' = [verdict EXCEPT ![r] = outcome]
       /\ LET h == AuthClientAfterVerify(locals[r], outcome)
          IN AdaptedMiddleware(r, "auth", h.response, h.logs)
  /\ UNCHANGED <<lifecycle, helper, services, jwtInput>>
  /\ UNCHANGED <<build, mode, escaped, nextUuid, request, invoked, serviceCalls>>

\* validateRequest(schema): the adapted ValidateRequestMiddleware
Validate(r) ==
  /\ pc[r] = "validate"
  /\ AdaptedMiddleware(r, "validate",
       ValidateRequestMiddlewareHandle(
         MiddlewareData(request[r], SchemaOf(request[r].route))), <<>>)
  /\ invoked' = [invoked EXCEPT ![r] = Append(@, "validate")]
  /\ UNCHANGED <<lifecycle, helper, services, jwtInput>>
  /\ UNCHANGED <<build, mode, escaped, nextUuid, request, verdict, serviceCalls>>

\* adaptRoute(controller): the controller runs its service and the adapter
\* writes the response
Controller(r) ==
  /\ pc[r] = "controller"
  /\ LET h == HealthCheckControllerHandle(locals[r])
         written == adaptRoute(h.response)
     IN /\ sent' = [sent EXCEPT ![r] = @ \o written]
        /\ log' = [log EXCEPT ![r] = @ \o h.logs]
        /\ outcomes' = [outcomes EXCEPT ![r] =
             Append(@, [stage |-> "controller", response |-> h.response,
                        next |-> FALSE, wrote |-> written # <<>>,
                        before |-> locals[r], after |-> locals[r],
                        written |-> written])]
  /\ invoked' = [invoked EXCEPT ![r] = @ \o <<"controller", "service">>]
  /\ serviceCalls' = [serviceCalls EXCEPT ![r] = Append(@, ServiceParams(locals[r]))]
  /\ pc' = [pc EXCEPT ![r] = "done"]
  /\ UNCHANGED <<lifecycle, helper, services, jwtInput>>
  /\ UNCHANGED <<build, mode, escaped, nextUuid, request, pos, locals, verdict>>

\* `data` built by adaptRoute from the Express request
RouteData(req) == Spread(Spread(req.body, req.params), req.query)

\* a request reaches the server and express.json() parses its body
Receive(r) ==
  /\ pc[r] = "idle"
  /\ r > 1 => pc[r - 1] # "idle"
  /\ \E q \in ExchangesOf(r) :
       /\ request' = [request EXCEPT ![r] = q]
       /\ IF q.body = Unparsable
          THEN /\ escaped' = [escaped EXCEPT ![r] = JsonParseError]
               /\ pc' = [pc EXCEPT ![r] = "errorHandler"]
          ELSE /\ escaped' = escaped
               /\ pc' = [pc EXCEPT ![r] = "trace"]
  /\ UNCHANGED <<lifecycle, helper, services, jwtInput>>
  /\ UNCHANGED <<build, mode, nextUuid, pos, locals, verdict, invoked, outcomes,
                 sent, log, serviceCalls>>

\* an adapted middleware of the route: its handle() settles and the adapter
\* acts on the envelope, or the exception goes to the error handler
Custom(r) ==
  /\ pc[r] = "custom"
  /\ \E result \in MiddlewareResultsOf(r) :
       IF result.threw
       THEN /\ escaped' = [escaped EXCEPT ![r] = result.error]
            /\ pc' = [pc EXCEPT ![r] = "errorHandler"]
            /\ UNCHANGED <<pos, locals, outcomes, sent, log>>
       ELSE /\ AdaptedMiddleware(r, "custom", result.response, <<>>)
            /\ escaped' = escaped
  /\ invoked' = [invoked EXCEPT ![r] = Append(@, "custom")]
  /\ UNCHANGED <<lifecycle, helper, services, jwtInput>>
  /\ UNCHANGED <<build, mode, nextUuid, request, verdict, serviceCalls>>

\* the number of service instances the factory has made
Created == Cardinality({r \in Reqs : serving[r] # 0})

\* adaptRoute(controller) for the controller of a generated module: the
\* controller obtains a service from the factory and calls run(), which
\* stores the traceId on the instance, logs and suspends in its business logic
ModuleRun(r) ==
  /\ pc[r] = "module"
  /\ LET params == ModuleServiceParams(RouteData(request[r]), locals[r])
         instance == makeModuleService(Created)
     IN /\ serving' = [serving EXCEPT ![r] = instance]
        /\ traceIdOf' = [traceIdOf EXCEPT ![instance] = params.traceId]
        /\ serviceCalls' = [serviceCalls EXCEPT ![r] = Append(@, params)]
        /\ log' = [log EXCEPT ![r] =
             Append(@, BaseServiceLog("debug", "Starting processing...",
                                      traceIdOf'[instance]))]
  /\ invoked' = [invoked EXCEPT ![r] = @ \o <<"controller", "service">>]
  /\ pc' = [pc EXCEPT ![r] = "service"]
  /\ UNCHANGED <<lifecycle, helper, jwtInput>>
  /\ UNCHANGED <<build, mode, escaped, nextUuid, request, pos, locals, verdict,
                 outcomes, sent>>

\* the service settles, the controller returns and the adapter writes the
\* response; a run() that completes logs once more before it returns
Module(r) ==
  /\ pc[r] = "service"
  /\ \E result \in ServiceResultsOf(r) :
       LET response == ModuleControllerHandle(result)
           written == adaptRoute(response)
       IN /\ sent' = [sent EXCEPT ![r] = @ \o written]
          /\ outcomes' = [outcomes EXCEPT ![r] =
               Append(@, [stage |-> "controller", response |-> response,
                          next |-> FALSE, wrote |-> written # <<>>,
                          before |-> locals[r], after |-> locals[r],
                          written |-> written, service |-> result])]
          /\ log' = [log EXCEPT ![r] =
               IF result.threw THEN @
               ELSE Append(@, BaseServiceLog("debug", "Processing completed.",
                                             traceIdOf[serving[r]]))]
  /\ pc' = [pc EXCEPT ![r] = "done"]
  /\ UNCHANGED <<lifecycle, helper, services, jwtInput>>
  /\ UNCHANGED <<build, mode, escaped, nextUuid, request, pos, locals, verdict,
                 invoked, serviceCalls>>

\* app.use(errorHandler): the exception that escaped a handler is answered
ErrorHandler(r) ==
  /\ pc[r] = "errorHandler"
  /\ LET h == errorHandler(mode, escaped[r])
     IN /\ sent' = [sent EXCEPT ![r] = @ \o h.written]
        /\ log' = [log EXCEPT ![r] = @ \o h.logs]
  /\ invoked' = [invoked EXCEPT ![r] = Append(@, "errorHandler")]
  /\ pc' = [pc EXCEPT ![r] = "done"]
  /\ UNCHANGED <<lifecycle, helper, services, jwtInput>>
  /\ UNCHANGED <<build, mode, escaped, nextUuid, request, pos, locals, verdict,
                 outcomes, serviceCalls>>

Next ==
  \E r \in Reqs :
    \/ Arrive(r)
    \/ Trace(r)
    \/ Probe(r)
    \/ NotFound(r)
    \/ Auth(r)
    \/ Verify(r)
    \/ Validate(r)
    \/ Controller(r)

Spec == Init /\ [][Next]_vars

\* the adapters and the error handler, driven by every result a middleware
\* or a service can settle with, in either mode
InitAdapter ==
  /\ build = "public"
  /\ mode \in {"development", "production"}
  /\ escaped = [r \in Reqs |-> NoError]
  /\ nextUuid = 0
  /\ pc = [r \in Reqs |-> "idle"]
  /\ request = [r \in Reqs |-> NoRequest]
  /\ pos = [r \in Reqs |-> 0]
  /\ locals = [r \in Reqs |-> EmptyObject]
  /\ verdict = [r \in Reqs |-> NoVerdict]
  /\ invoked = [r \in Reqs |-> <<>>]
  /\ outcomes = [r \in Reqs |-> <<>>]
  /\ sent = [r \in Reqs |-> <<>>]
  /\ log = [r \in Reqs |-> <<>>]
  /\ serviceCalls = [r \in Reqs |-> <<>>]
  /\ jwtInput = [r \in Reqs |-> Undefined]
  /\ traceIdOf = [i \in Reqs |-> Undefined]
  /\ serving = [r \in Reqs |-> 0]
  /\ call = NoCall
  /\ ret = NoResult
  /\ Serving

NextAdapter ==
  \E r \in Reqs :
    \/ Receive(r)
    \/ Trace(r)
    \/ Custom(r)
    \/ ModuleRun(r)
    \/ Module(r)
    \/ ErrorHandler(r)

SpecAdapter == InitAdapter /\ [][NextAdapter]_vars

(* ------------------------------ helper calls --------------------------- *)

\* no request has been received
Quiet ==
  /\ escaped = [r \in Reqs |-> NoError]
  /\ nextUuid = 0
  /\ pc = [r \in Reqs |-> "idle"]
  /\ request = [r \in Reqs |-> NoRequest]
  /\ pos = [r \in Reqs |-> 0]
  /\ locals = [r \in Reqs |-> EmptyObject]
  /\ verdict = [r \in Reqs |-> NoVerdict]
  /\ invoked = [r \in Reqs |-> <<>>]
  /\ outcomes = [r \in Reqs |-> <<>>]
  /\ sent = [r \in Reqs |-> <<>>]
  /\ log = [r \in Reqs |-> <<>>]
  /\ serviceCalls = [r \in Reqs |-> <<>>]
  /\ jwtInput = [r \in Reqs |-> Undefined]
  /\ traceIdOf = [i \in Reqs |-> Undefined]
  /\ serving = [r \in Reqs |-> 0]

\* bodies handed to ok and created
DataValues ==
  { EmptyObject,
    [content |-> BoolV(TRUE)],
    [content |-> Obj(EmptyObject)],
    [traceId |-> Uuid(1)],
    [validated |-> BoolV(TRUE)],
    [foo |-> Txt("bar"), baz |-> Null] }

\* values of a property that is to be masked
SecretValues ==
  { Txt("secret123"), Txt(""), Num(42), Num(0), BoolV(FALSE), Null, Undefined,
    Obj([a |-> Num(1)]) }

\* values of a property that holds further data
NestedValues ==
  { Null,
    Obj([pin |-> Num(1234), name |-> Txt("ana")]),
    Arr(<<Txt("a"), Txt("b")>>),
    Obj([password |-> Txt("x"), inner |-> Obj([password |-> Txt("yz")])]) }

Targets ==
  { Obj([id |-> Num(1), password |-> p, profile |-> q]) :
      p \in SecretValues, q \in NestedValues }

WordLists == { {}, {"password"}, {"password", "pin"} }

HelperCalls ==
  { [fn |-> "ok", data |-> d] : d \in DataValues }
  \cup { [fn |-> "created", data |-> d] : d \in DataValues }
  \cup { [fn |-> "noContent"] }
  \cup { [fn |-> "obfuscate", target |-> t, words |-> w] :
           t \in Targets, w \in WordLists }

InitHelpers ==
  /\ build = "public"
  /\ mode = "development"
  /\ Quiet
  /\ call \in HelperCalls
  /\ ret = NoResult
  /\ Serving

CallOk ==
  /\ call.fn = "ok" /\ ret = NoResult
  /\ ret' = ok(call.data)
  /\ UNCHANGED <<call, pipeline, lifecycle>>

CallCreated ==
  /\ call.fn = "created" /\ ret = NoResult
  /\ ret' = created(call.data)
  /\ UNCHANGED <<call, pipeline, lifecycle>>

CallNoContent ==
  /\ call.fn = "noContent" /\ ret = NoResult
  /\ ret' = noContent
  /\ UNCHANGED <<call, pipeline, lifecycle>>

\* the helper builds its result from copies of the entries, so the target
\* it was given stays as it was
CallObfuscate ==
  /\ call.fn = "obfuscate" /\ ret = NoResult
  /\ ret' = obfuscateInformationInObjectDynamic(call.target, call.words)
  /\ UNCHANGED <<call, pipeline, lifecycle>>

NextHelpers == CallOk \/ CallCreated \/ CallNoContent \/ CallObfuscate

SpecHelpers == InitHelpers /\ [][NextHelpers]_vars

(* ------------------------- start-up and shutdown ----------------------- *)

\* the process right after `serviceSetup.start()` was called: ./app is being
\* imported, nothing listens, no route file has been imported
InitLifecycle ==
  /\ build = "public"
  /\ mode = "development"
  /\ Quiet
  /\ call = NoCall
  /\ ret = NoResult
  /\ server = "starting"
  /\ registered = FALSE
  /\ exitCode = 0
  /\ pending = {}

\* the requests clients send while the process starts, serves and shuts down
Visits ==
  { HttpRequest("GET", "/", "root", Undefined, EmptyObject, EmptyObject),
    HttpRequest("GET", "/api/v1/health", "health", Undefined, EmptyObject,
                EmptyObject) }

\* the requests the server has accepted and not answered yet
InFlight == { r \in Reqs : pc[r] \notin {"idle", "done"} }

\* variant: the close callback does not wait for open connections
DrainedAtOnce(inflight) == TRUE

\* server.close(callback): the callback runs once every connection has ended
Drained(inflight) == inflight = {}

\* ServerSetup.start after `await import('./app')`: app.listen(port).  The
\* imports of the route files started by setupRoutes are not awaited.
Listen ==
  /\ server = "starting"
  /\ server' = "listening"
  /\ UNCHANGED <<pipeline, helper, registered, exitCode, pending>>

\* the import of a route file settles and its default export registers the
\* handlers on the version router
ImportRoute ==
  /\ server \in {"starting", "listening", "closing"}
  /\ ~registered
  /\ registered' = TRUE
  /\ UNCHANGED <<pipeline, helper, server, exitCode, pending>>

\* the listening server accepts a connection and reads a request
Accept(r) ==
  /\ server = "listening"
  /\ pc[r] = "idle"
  /\ r > 1 => pc[r - 1] # "idle"
  /\ \E q \in Visits : request' = [request EXCEPT ![r] = q]
  /\ pc' = [pc EXCEPT ![r] = "trace"]
  /\ UNCHANGED <<lifecycle, helper, services, jwtInput>>
  /\ UNCHANGED <<build, mode, escaped, nextUuid, pos, locals, verdict,
                 invoked, outcomes, sent, log, serviceCalls>>

\* process.on('SIGTERM'): ServerSetup.stop.  Before `this.app` is assigned
\* `this.app.disconnect()` throws, the handler's promise rejects and the
\* unhandled rejection ends the process; afterwards server.close() is called
Sigterm ==
  /\ server \in {"starting", "listening"}
  /\ IF server = "starting"
     THEN /\ server' = "crashed"
          /\ exitCode' = 1
          /\ pending' = pending
     ELSE /\ server' = "closing"
          /\ exitCode' = exitCode
          /\ pending' = InFlight
  /\ UNCHANGED <<pipeline, helper, registered>>

\* the callback of server.close runs, disconnect() resolves and stop() sets
\* process.exitCode
CloseDone ==
  /\ server = "closing"
  /\ Drained(InFlight)
  /\ server' = "closed"
  /\ exitCode' = 1
  /\ UNCHANGED <<pipeline, helper, registered, pending>>

\* nothing keeps the event loop alive any more: the process exits
Exit ==
  /\ server = "closed"
  /\ server' = "exited"
  /\ UNCHANGED <<pipeline, helper, registered, exitCode, pending>>

\* the steps of the requests the server has accepted
Handling ==
  \E r \in Reqs : Trace(r) \/ Probe(r) \/ NotFound(r) \/ Controller(r)

NextLifecycle ==
  \/ Listen
  \/ ImportRoute
  \/ Sigterm
  \/ CloseDone
  \/ Exit
  \/ \E r \in Reqs : Accept(r)
  \/ Handling

\* the event loop runs every callback that is ready: handlers of accepted
\* requests, the close callback, the exit of the drained process
SpecLifecycle ==
  /\ InitLifecycle
  /\ [][NextLifecycle]_vars
  /\ WF_vars(Handling)
  /\ WF_vars(CloseDone)
  /\ WF_vars(Exit)

(* ----------------------- observations on a request --------------------- *)

\* handler `stage` has been invoked for request r
Ran(r, stage) == \E i \in 1..Len(invoked[r]) : invoked[r][i] = stage

\* the envelopes the adapted stage `stage` has returned for request r
Envelopes(r, stage) ==
  { outcomes[r][i].response :
      i \in { j \in 1..Len(outcomes[r]) : outcomes[r][j].stage = stage } }

\* the adapted AuthClientKeycloakMiddleware has returned for request r
AuthReturned(r) == Envelopes(r, "auth") # {}

\* the envelope is the Forbidden failure with the given application code
IsForbidden(httpResponse, code) ==
  /\ httpResponse.statusCode = 403
  /\ Get(httpResponse, "code") = Num(code)

(* -------------------------------- C1 ----------------------------------- *)

\* C1: every middleware invocation that returned either called next() (status
\* in [200,299]) or wrote a response (any other status), never both and never
\* neither; a controller is never invoked for a request one of whose
\* middlewares returned a non-2xx envelope.
C1_NextXorResponse ==
  \A r \in Reqs :
    /\ \A i \in 1..Len(outcomes[r]) :
         LET o == outcomes[r][i]
             status == o.response.statusCode
         IN o.stage # "controller" =>
              /\ o.next # o.wrote
              /\ o.next <=> (status >= 200 /\ status <= 299)
    /\ (\E i \in 1..Len(outcomes[r]) :
          /\ outcomes[r][i].stage # "controller"
          /\ ~(outcomes[r][i].response.statusCode \in 200..299))
       => ~Ran(r, "controller")

\* a request whose trace middleware continued and whose next middleware
\* answered with a failure
C1_Witness ==
  \E r \in Reqs :
    /\ pc[r] = "done"
    /\ \E i, j \in 1..Len(outcomes[r]) :
         /\ i < j
         /\ outcomes[r][i].next /\ ~outcomes[r][i].wrote
         /\ outcomes[r][j].stage \in {"auth", "validate"}
         /\ outcomes[r][j].wrote /\ ~outcomes[r][j].next
    /\ Len(sent[r]) = 1

(* -------------------------------- C2 ----------------------------------- *)

\* C2: a request with no Authorization header, or an empty one, gets the
\* envelope 403 / 3001 from the auth middleware, and jwtVerify is not called.
C2_MissingHeaderIs3001 ==
  \A r \in Reqs :
    (Ran(r, "auth") /\ request[r].authorization \in {Undefined, Chars(<<>>)})
    => /\ AuthReturned(r)
       /\ \A e \in Envelopes(r, "auth") : IsForbidden(e, 3001)
       /\ ~Ran(r, "jwtVerify")

C2_Witness ==
  \E r \in Reqs :
    /\ request[r].route = "health"
    /\ Ran(r, "auth")
    /\ request[r].authorization = Chars(<<>>)
    /\ \E e \in Envelopes(r, "auth") : IsForbidden(e, 3001)

(* -------------------------------- C3 ----------------------------------- *)

RECURSIVE SchemePart(_)
\* the header value up to its first space
SchemePart(chars) ==
  IF chars = <<>> \/ Head(chars) = " " THEN <<>>
  ELSE <<Head(chars)>> \o SchemePart(Tail(chars))

\* the header value after its first space (empty when there is no space)
TokenPart(chars) ==
  SubSeq(chars, Len(SchemePart(chars)) + 2, Len(chars))

TokenAbc == Chars(<<"Token", " ", "abc">>)

\* C3: a present Authorization value whose scheme is not exactly "Bearer", or
\* whose token part is empty, gets 403 / 3002 without jwtVerify being called;
\* end to end, `Authorization: Token abc` on the protected health route is
\* answered with HTTP 403 and the JSON body {message, code: 3002}.
C3_BadSchemeIs3002 ==
  \A r \in Reqs :
    /\ ( /\ Ran(r, "auth")
         /\ request[r].authorization \notin {Undefined, Chars(<<>>)}
         /\ \/ SchemePart(request[r].authorization.chars) # <<"Bearer">>
            \/ TokenPart(request[r].authorization.chars) = <<>> )
       => /\ AuthReturned(r)
          /\ \A e \in Envelopes(r, "auth") : IsForbidden(e, 3002)
          /\ ~Ran(r, "jwtVerify")
    /\ ( /\ pc[r] = "done"
         /\ build = "protected"
         /\ request[r].route = "health"
         /\ request[r].authorization = TokenAbc )
       => sent[r] = << Json(403, Obj([message |-> Txt("Formato de token invalido"),
                                      code |-> Num(3002)])) >>

C3_Witness ==
  \E r \in Reqs :
    /\ pc[r] = "done"
    /\ build = "protected"
    /\ request[r].route = "health"
    /\ request[r].authorization = TokenAbc
    /\ Len(sent[r]) = 1
    /\ sent[r][1].status = 403

(* -------------------------------- C4 ----------------------------------- *)

\* C4: when jwtVerify rejects a well-formed Bearer token as expired, the auth
\* middleware returns 403 / 3004.
C4_ExpiredIs3004 ==
  \A r \in Reqs :
    ( /\ verdict[r] # NoVerdict
      /\ verdict[r].threw
      /\ Get(verdict[r].error, "code") = Txt("ERR_JWT_EXPIRED") )
    => /\ AuthReturned(r)
       /\ \A e \in Envelopes(r, "auth") : IsForbidden(e, 3004)

C4_Witness ==
  \E r \in Reqs :
    /\ verdict[r] = Threw(JoseError("ERR_JWT_EXPIRED", Txt("exp")))
    /\ request[r].authorization = Chars(<<"Bearer", " ", "jwt">>)
    /\ \E e \in Envelopes(r, "auth") : IsForbidden(e, 3004)

(* -------------------------------- C5 ----------------------------------- *)

\* C5: every error thrown by jwtVerify becomes a 403 envelope whose code is
\* 3004 (expired), 3005 (invalid token), 3006 (claim validation failed) or
\* 3007 (anything else, a key-set fetch failure included); the auth middleware
\* always returns, its status is 200 or 403, and every failure envelope has a
\* code in 3001..3007.
C5_FailureClassification ==
  \A r \in Reqs :
    /\ (verdict[r] # NoVerdict /\ verdict[r].threw)
       => LET code == Get(verdict[r].error, "code")
              expected == IF code = Txt("ERR_JWT_EXPIRED") THEN 3004
                          ELSE IF code = Txt("ERR_JWT_INVALID") THEN 3005
                          ELSE IF code = Txt("ERR_JWT_CLAIM_VALIDATION_FAILED") THEN 3006
                          ELSE 3007
          IN /\ AuthReturned(r)
             /\ \A e \in Envelopes(r, "auth") : IsForbidden(e, expected)
    /\ (Ran(r, "auth") /\ pc[r] # "verify") => Cardinality(Envelopes(r, "auth")) = 1
    /\ \A e \in Envelopes(r, "auth") :
         /\ e.statusCode \in {200, 403}
         /\ e.statusCode = 403 =>
              /\ Get(e, "code").t = "number"
              /\ Get(e, "code").n \in 3001..3007

\* the key set could not be fetched, and the request was refused with 3007
C5_Witness ==
  \E r \in Reqs :
    /\ verdict[r] = Threw(PlainError("fetch failed"))
    /\ \E e \in Envelopes(r, "auth") : IsForbidden(e, 3007)
    /\ pc[r] = "done"

(* -------------------------------- C6 ----------------------------------- *)

\* C6: when jwtVerify succeeds with a payload that has no subject, the auth
\* middleware returns 403 / 3003, nothing is merged into locals and the next
\* stage does not run.
C6_NoSubjectIs3003 ==
  \A r \in Reqs :
    ( /\ verdict[r] # NoVerdict
      /\ ~verdict[r].threw
      /\ "sub" \notin DOMAIN verdict[r].payload )
    => /\ AuthReturned(r)
       /\ \A e \in Envelopes(r, "auth") : IsForbidden(e, 3003)
       /\ DOMAIN locals[r] = {"traceId"}
       /\ ~Ran(r, "controller")
       /\ pc[r] = "done"

C6_Witness ==
  \E r \in Reqs :
    /\ verdict[r] = Verified([email |-> Txt("ana@marquei.app")])
    /\ \E e \in Envelopes(r, "auth") : IsForbidden(e, 3003)
    /\ Len(sent[r]) = 1

(* -------------------------------- C7 ----------------------------------- *)

\* C7: when jwtVerify succeeds with a subject, the auth middleware returns 200
\* with body {client}, the adapter stores it under locals.client, and from then
\* on locals.client.id is the token's subject, locals.client.email its email
\* claim when it has one, and the clientId the controller passes to the
\* service is that subject.
C7_ClientIsSubject ==
  \A r \in Reqs :
    ( /\ verdict[r] # NoVerdict
      /\ ~verdict[r].threw
      /\ "sub" \in DOMAIN verdict[r].payload )
    => LET payload == verdict[r].payload
           client == Get(locals[r], "client")
       IN /\ AuthReturned(r)
          /\ \A e \in Envelopes(r, "auth") :
               /\ e.statusCode = 200
               /\ DOMAIN e.body.o = {"client"}
               /\ e.body.o.client = client
          /\ Prop(client, "id") = payload.sub
          /\ "email" \in DOMAIN payload => Prop(client, "email") = payload.email
          /\ \A i \in 1..Len(serviceCalls[r]) : serviceCalls[r][i].clientId = payload.sub
          /\ pc[r] = "done" => Len(serviceCalls[r]) = 1

\* a verified request whose controller has called the service
C7_Witness ==
  \E r \in Reqs :
    /\ verdict[r] = Verified([sub |-> Txt("user-2"), email |-> Txt("bia@marquei.app")])
    /\ Len(serviceCalls[r]) = 1
    /\ serviceCalls[r][1].clientId = Txt("user-2")
    /\ Prop(Get(locals[r], "client"), "email") = Txt("bia@marquei.app")

(* -------------------------------- C8 ----------------------------------- *)

\* the log records of request r that carry its trace id
TracedRecords(r) ==
  { i \in 1..Len(log[r]) :
      /\ log[r][i].level \in {"warn", "error"}
      /\ "traceId" \in DOMAIN log[r][i].data
      /\ log[r][i].data.traceId = Get(locals[r], "traceId") }

\* C8 as stated: on every failure path of the auth middleware (3001..3007) a
\* log record with the trace id, the error message and the error code has
\* been emitted by the time the failure envelope is returned.
C8_AsStated ==
  \A r \in Reqs :
    \A e \in Envelopes(r, "auth") :
      ~(e.statusCode \in 200..299) =>
        \E i \in TracedRecords(r) :
          /\ "errorMessage" \in DOMAIN log[r][i].data
          /\ "errorCode" \in DOMAIN log[r][i].data

\* C8 (amended): on every failure path of the auth middleware a log record
\* with the request's trace id and a description has been emitted by the time
\* the failure envelope is returned; the record carries an error message and
\* an error code (those of the caught error) only on the paths 3004..3007,
\* and on the paths 3001..3003 it carries the trace id alone.
C8_FailureLogged ==
  \A r \in Reqs :
    \A e \in Envelopes(r, "auth") :
      ~(e.statusCode \in 200..299) =>
        /\ Get(locals[r], "traceId").t = "string"
        /\ TracedRecords(r) # {}
        /\ \A i \in TracedRecords(r) :
             /\ log[r][i].msg # <<>>
             /\ IF Get(e, "code").n \in 3004..3007
                THEN /\ verdict[r] # NoVerdict /\ verdict[r].threw
                     /\ log[r][i].data.errorMessage = Get(verdict[r].error, "message")
                     /\ log[r][i].data.errorCode = Get(verdict[r].error, "code")
                ELSE DOMAIN log[r][i].data = {"traceId"}

\* both kinds of failure path have run: one before and one after jwtVerify
C8_Witness ==
  \E r1, r2 \in Reqs :
    /\ \E e \in Envelopes(r1, "auth") : IsForbidden(e, 3002)
    /\ TracedRecords(r1) # {}
    /\ \E e \in Envelopes(r2, "auth") : IsForbidden(e, 3004)
    /\ TracedRecords(r2) # {}

(* -------------------------------- C9 ----------------------------------- *)

\* the input the validation middleware of request r validates
ValidatedInput(r) ==
  [body |-> request[r].body, params |-> request[r].params, query |-> request[r].query]

\* the messages of the schema rules the input of request r violates
ViolationMessages(r) ==
  { CreateItemSchema.rules[k].message :
      k \in { j \in 1..Len(CreateItemSchema.rules) :
                ~Passes(CreateItemSchema.rules[j],
                        FieldAt(ValidatedInput(r), CreateItemSchema.rules[j].path)) } }

SeqRange(q) == { q[i] : i \in 1..Len(q) }

\* C9: when n >= 2 fields violate the schema, the 400 envelope of the
\* validation middleware carries all n violation messages, and so does the
\* HTTP 400 response the client receives.
C9_AllViolationsReported ==
  \A r \in Reqs :
    ( /\ request[r].route = "items"
      /\ Ran(r, "validate")
      /\ Cardinality(ViolationMessages(r)) >= 2 )
    => /\ Envelopes(r, "validate") # {}
       /\ \A e \in Envelopes(r, "validate") :
            /\ e.statusCode = 400
            /\ e.body.t = "error"
            /\ e.body.message.t = "array"
            /\ SeqRange(e.body.message.a) = ViolationMessages(r)
            /\ Len(e.body.message.a) = Cardinality(ViolationMessages(r))
       /\ Len(sent[r]) = 1
       /\ sent[r][1].status = 400
       /\ sent[r][1].type = "json"
       /\ SeqRange(sent[r][1].body.o.message.a) = ViolationMessages(r)

\* a request with three violations has been answered
C9_Witness ==
  \E r \in Reqs :
    /\ request[r].route = "items"
    /\ Cardinality(ViolationMessages(r)) = 3
    /\ Len(sent[r]) = 1
    /\ Len(sent[r][1].body.o.message.a) = 3

(* -------------------------------- C10 ---------------------------------- *)

\* C10: on a route built with validateRequest(schema), the validation
\* middleware returns 200 {validated: true} exactly when the input has no
\* violation; otherwise it returns 400, nothing is merged into locals and the
\* controller behind it never runs.
C10_AllOrNothing ==
  \A r \in Reqs :
    (request[r].route = "items" /\ Ran(r, "validate"))
    => /\ Cardinality(Envelopes(r, "validate")) = 1
       /\ \A e \in Envelopes(r, "validate") :
            IF ViolationMessages(r) = {}
            THEN /\ e.statusCode = 200
                 /\ e.body = Obj([validated |-> BoolV(TRUE)])
                 /\ Get(locals[r], "validated") = BoolV(TRUE)
            ELSE /\ e.statusCode = 400
                 /\ "validated" \notin DOMAIN locals[r]
                 /\ ~Ran(r, "controller")
                 /\ pc[r] = "done"

\* one request was accepted and reached its controller, another had a single
\* violation and was refused
C10_Witness ==
  \E r1, r2 \in Reqs :
    /\ request[r1].route = "items" /\ ViolationMessages(r1) = {}
    /\ Ran(r1, "controller")
    /\ request[r2].route = "items" /\ Cardinality(ViolationMessages(r2)) >= 1
    /\ pc[r2] = "done"

(* ------------------------------------------------------------------------ *)
(* C11: every invocation of the trace middleware generates its own trace   *)
(* identifier: whatever the interleaving, two different requests never     *)
(* carry the same locals.traceId, and the identifier a request carries is  *)
(* the one its own trace invocation returned.                              *)
(* ------------------------------------------------------------------------ *)
C11_FreshTraceIds ==
  /\ \A r1 \in Reqs : \A r2 \in Reqs :
       (r1 # r2 /\ "traceId" \in DOMAIN locals[r1]
                /\ "traceId" \in DOMAIN locals[r2])
         => locals[r1].traceId # locals[r2].traceId
  /\ \A r \in Reqs :
       "traceId" \in DOMAIN locals[r]
         => \E e \in Envelopes(r, "trace") : e.body.o.traceId = locals[r].traceId

\* two requests are in flight past the trace middleware at the same time
C11_Witness ==
  \E r1 \in Reqs : \E r2 \in Reqs :
    /\ r1 # r2
    /\ pc[r1] \notin {"idle", "trace", "done"}
    /\ pc[r2] \notin {"idle", "trace", "done"}
    /\ "traceId" \in DOMAIN locals[r1]
    /\ "traceId" \in DOMAIN locals[r2]

(* ------------------------------------------------------------------------ *)
(* C12: the trace middleware always returns a 200 envelope whose body is   *)
(* {traceId}, and it is the first handler run for a request; so whenever a *)
(* downstream stage (auth, validation, controller, root probe) is about to *)
(* run or has run, locals.traceId is set to a non-empty (truthy) value.    *)
(* ------------------------------------------------------------------------ *)
Downstream == {"probe", "auth", "jwtVerify", "validate", "controller", "service"}

C12_TraceIdBeforeDownstream ==
  \A r \in Reqs :
    /\ \A e \in Envelopes(r, "trace") :
         /\ e.statusCode = 200
         /\ e.body.t = "object"
         /\ DOMAIN e.body.o = {"traceId"}
         /\ Truthy(e.body.o.traceId)
    /\ invoked[r] # <<>> => invoked[r][1] = "trace"
    /\ (\/ pc[r] \in {"probe", "auth", "verify", "validate", "controller"}
        \/ \E stage \in Downstream : Ran(r, stage))
         => /\ "traceId" \in DOMAIN locals[r]
            /\ Truthy(locals[r].traceId)
            /\ locals[r].traceId # Txt("")

\* each of the four downstream stages has run for some request
C12_Witness ==
  /\ \E r \in Reqs : Ran(r, "controller") /\ Ran(r, "auth")
  /\ \E r \in Reqs : Ran(r, "probe") \/ Ran(r, "validate")

(* ------------------------------------------------------------------------ *)
(* C13: for a request it handles, the trace middleware emits exactly one   *)
(* log line, carrying the method, the path and the traceId, if and only if *)
(* the request is not GET on "/"; for GET "/" it emits none, and the       *)
(* response is 200 with the bare text "ok", not a JSON body.               *)
(* ------------------------------------------------------------------------ *)
\* the log records of request r that carry a method, i.e. the trace lines
TraceLines(r) ==
  { i \in 1..Len(log[r]) : "method" \in DOMAIN log[r][i].data }

C13_TraceLogUnlessProbe ==
  \A r \in Reqs :
    Ran(r, "trace") =>
      IF request[r].method = "GET" /\ request[r].path = "/"
      THEN /\ log[r] = <<>>
           /\ pc[r] = "done" => sent[r] = <<Send(200, "ok")>>
      ELSE /\ Cardinality(TraceLines(r)) = 1
           /\ \A i \in TraceLines(r) :
                /\ i = 1
                /\ log[r][i].data = [method |-> Txt(request[r].method),
                                     path |-> Txt(request[r].path),
                                     traceId |-> locals[r].traceId]

\* a probe was answered, and requests differing from it in the method only
\* and in the path only were traced
C13_Witness ==
  /\ \E r \in Reqs : request[r].route = "root" /\ pc[r] = "done"
  /\ \E r \in Reqs : /\ Ran(r, "trace")
                      /\ \/ request[r].method = "POST" /\ request[r].path = "/"
                         \/ request[r].method = "GET" /\ request[r].path # "/"

(* ------------------------------------------------------------------------ *)
(* C14: when a middleware returns a 2xx envelope with body B, the adapter  *)
(* calls next() and the locals the next stage sees are the previous locals *)
(* overridden by exactly the truthy entries of B: an entry whose value is  *)
(* null, undefined, false, 0 or "" is not merged, and neither overwrites   *)
(* nor deletes a key the locals already had.                               *)
(* ------------------------------------------------------------------------ *)
Falsy == {Null, Undefined, BoolV(FALSE), Num(0), Txt("")}

\* the entries of the body of an envelope (none when it has no body)
BodyEntries(httpResponse) ==
  IF "body" \in DOMAIN httpResponse /\ httpResponse.body.t = "object"
  THEN httpResponse.body.o ELSE EmptyObject

C14_TruthyEntriesMerged ==
  \A r \in Reqs : \A i \in 1..Len(outcomes[r]) :
    LET o == outcomes[r][i]
        B == BodyEntries(o.response)
        merged == {k \in DOMAIN B : B[k] \notin Falsy}
    IN (o.stage # "controller" /\ o.response.statusCode \in 200..299) =>
         /\ o.next
         /\ DOMAIN o.after = DOMAIN o.before \cup merged
         /\ \A k \in DOMAIN o.after :
              o.after[k] = IF k \in merged THEN B[k] ELSE o.before[k]
         /\ IF i < Len(outcomes[r])
            THEN outcomes[r][i + 1].before = o.after
            ELSE locals[r] = o.after

\* {foo: "bar", baz: null} merged foo only; then a body with a falsy foo and
\* a truthy baz left foo as it was and added baz
C14_Witness ==
  \E r \in Reqs : \E i \in 1..Len(outcomes[r]) :
    /\ i + 1 <= Len(outcomes[r])
    /\ outcomes[r][i].stage = "custom"
    /\ outcomes[r][i].response = ok([foo |-> Txt("bar"), baz |-> Null])
    /\ "baz" \notin DOMAIN outcomes[r][i].after
    /\ outcomes[r][i + 1].stage = "custom"
    /\ outcomes[r][i + 1].response = ok([foo |-> Txt(""), baz |-> Txt("qux")])
    /\ outcomes[r][i + 1].after.foo = Txt("bar")
    /\ outcomes[r][i + 1].after.baz = Txt("qux")

(* ------------------------------------------------------------------------ *)
(* C15: for every non-2xx envelope a middleware or a controller returns,   *)
(* the adapter writes one response whose status is the envelope's          *)
(* statusCode and whose JSON body is {message, code}: code is the          *)
(* envelope's code, message is the error's message when the envelope body  *)
(* is an Error instance and the body itself otherwise.                     *)
(* ------------------------------------------------------------------------ *)
C15_FailureShape ==
  \A r \in Reqs : \A i \in 1..Len(outcomes[r]) :
    LET o == outcomes[r][i]
        e == o.response
    IN ~(e.statusCode \in 200..299) =>
         o.written =
           <<[status |-> e.statusCode, type |-> "json",
              body |-> Obj([message |-> IF e.body.t = "error" THEN e.body.message
                                        ELSE e.body,
                            code |-> e.code])]>>

\* a middleware returned a failure envelope with a plain body, a controller
\* one whose body is an Error, and both were written
C15_Witness ==
  /\ \E r \in Reqs : \E i \in 1..Len(outcomes[r]) :
       /\ outcomes[r][i].stage = "custom"
       /\ outcomes[r][i].response.statusCode = 409
       /\ outcomes[r][i].response.body = Txt("conflict")
       /\ sent[r] = <<Json(409, Obj([message |-> Txt("conflict"),
                                     code |-> Num(1005)]))>>
  /\ \E r \in Reqs : \E i \in 1..Len(outcomes[r]) :
       /\ outcomes[r][i].stage = "controller"
       /\ outcomes[r][i].response.body.t = "error"
       /\ sent[r] = <<Json(404, Obj([message |-> Txt("Recurso nao encontrado"),
                                     code |-> Num(1002)]))>>

(* ------------------------------------------------------------------------ *)
(* C16: the controller adapter always ends the exchange: the step in which *)
(* adaptRoute handles a request writes exactly one response (the envelope  *)
(* body as JSON with the envelope status when it is 2xx, {message, code}   *)
(* with that status otherwise), leaves the request with no further stage   *)
(* to run, and does not change its locals.  While the controller waits for *)
(* its service nothing is written and locals stay as they are.             *)
(* ------------------------------------------------------------------------ *)
C16_RouteAdapterEnds ==
  [][\A r \in Reqs :
      /\ (pc[r] = "module" /\ pc'[r] # pc[r]) =>
         /\ pc'[r] = "service"
         /\ locals'[r] = locals[r]
         /\ sent'[r] = sent[r]
         /\ outcomes'[r] = outcomes[r]
      /\ (pc[r] \in {"controller", "service"} /\ pc'[r] # pc[r]) =>
         /\ pc'[r] = "done"
         /\ locals'[r] = locals[r]
         /\ Len(outcomes'[r]) = Len(outcomes[r]) + 1
         /\ LET o == outcomes'[r][Len(outcomes'[r])]
                e == o.response
            IN /\ o.stage = "controller"
               /\ ~o.next
               /\ sent'[r] =
                    Append(sent[r],
                      [status |-> e.statusCode, type |-> "json",
                       body |-> IF e.statusCode \in 200..299 THEN e.body
                                ELSE Obj([message |-> IF e.body.t = "error"
                                                      THEN e.body.message
                                                      ELSE e.body,
                                          code |-> e.code])])]_vars

\* one controller returned a 2xx envelope and another a failure envelope,
\* and each exchange ended with its single response
C16_Witness ==
  /\ \E r \in Reqs :
       /\ pc[r] = "done"
       /\ sent[r] = <<Json(200, Obj([content |-> Obj(EmptyObject)]))>>
  /\ \E r \in Reqs :
       /\ pc[r] = "done"
       /\ Ran(r, "controller")
       /\ Len(sent[r]) = 1
       /\ sent[r][1].status = 500

(* ------------------------------------------------------------------------ *)
(* C17: for every value e a controller catches, getHttpError(e) is the     *)
(* envelope {statusCode, code, body} with body = e, code = e.code and      *)
(* statusCode = e.statusCode when e has one, 500 when it has none; so an   *)
(* untyped exception is answered with HTTP 500 and a typed error keeps its *)
(* status (BadRequest 400, NotFound 404, Forbidden 403, InternalServerError*)
(* 500).                                                                   *)
(* ------------------------------------------------------------------------ *)
StatusOfType ==
  [BadRequestError |-> 400, NotFoundError |-> 404, ForbiddenError |-> 403,
   InternalServerError |-> 500]

C17_ErrorEnvelope ==
  \A r \in Reqs : \A i \in 1..Len(outcomes[r]) :
    LET o == outcomes[r][i]
    IN ("service" \in DOMAIN o /\ o.service.threw) =>
         LET e == o.service.error
             status == IF "statusCode" \in DOMAIN e THEN e.statusCode.n ELSE 500
         IN /\ o.response =
                 [statusCode |-> status,
                  code |-> IF "code" \in DOMAIN e THEN e.code ELSE Undefined,
                  body |-> e]
            /\ Len(o.written) = 1 /\ o.written[1].status = status
            /\ IF "name" \in DOMAIN e /\ e.name \in DOMAIN StatusOfType
               THEN status = StatusOfType[e.name]
               ELSE status = 500

\* an untyped exception was answered with 500 and a NotFoundError with 404
C17_Witness ==
  /\ \E r \in Reqs : \E i \in 1..Len(outcomes[r]) :
       /\ "service" \in DOMAIN outcomes[r][i]
       /\ outcomes[r][i].service = Threw(PlainError("boom"))
       /\ sent[r] = <<Json(500, Obj([message |-> Txt("boom"), code |-> Undefined]))>>
  /\ \E r \in Reqs : \E i \in 1..Len(outcomes[r]) :
       /\ "service" \in DOMAIN outcomes[r][i]
       /\ outcomes[r][i].service =
            Threw(NotFoundError(Txt("Recurso nao encontrado"), Num(1002)))
       /\ sent[r][1].status = 404

(* ------------------------------------------------------------------------ *)
(* C18: a request to the protected health route with a valid Bearer token  *)
(* (jwtVerify resolves with a payload that has a subject) runs trace, then *)
(* auth, then the controller, in that order and nothing else; it is        *)
(* answered once, with HTTP 200 and the JSON body {content: true}; and the *)
(* service is called with the traceId generated for that same request.     *)
(* ------------------------------------------------------------------------ *)
IsPrefix(a, b) == Len(a) <= Len(b) /\ \A i \in 1..Len(a) : a[i] = b[i]

ValidToken(r) ==
  /\ "threw" \in DOMAIN verdict[r]
  /\ ~verdict[r].threw
  /\ Get(verdict[r].payload, "sub") \notin {Undefined, Null, Txt("")}

C18_ProtectedHealthPath ==
  \A r \in Reqs :
    (build = "protected" /\ request[r].route = "health" /\ ValidToken(r)) =>
      /\ IsPrefix(invoked[r], <<"trace", "auth", "jwtVerify", "controller", "service">>)
      /\ IF pc[r] = "done"
         THEN /\ Len(invoked[r]) = 5
              /\ sent[r] = <<[status |-> 200, type |-> "json",
                              body |-> Obj([content |-> BoolV(TRUE)])]>>
              /\ Len(serviceCalls[r]) = 1
              /\ \E e \in Envelopes(r, "trace") :
                   serviceCalls[r][1].traceId = e.body.o.traceId
              /\ \A r2 \in Reqs \ {r} : \A e \in Envelopes(r2, "trace") :
                   serviceCalls[r][1].traceId # e.body.o.traceId
         ELSE sent[r] = <<>> /\ serviceCalls[r] = <<>>

\* two requests with valid tokens were answered by the protected route
C18_Witness ==
  /\ build = "protected"
  /\ \A r \in Reqs :
       /\ request[r].route = "health"
       /\ ValidToken(r)
       /\ pc[r] = "done"
       /\ sent[r] # <<>>

(* ------------------------------------------------------------------------ *)
(* C19: an exception that escapes a handler reaches the top-level error    *)
(* handler, which logs it and answers with a generic 500 that hides the    *)
(* original message; the error's own status and message are surfaced in    *)
(* development mode only.                                                  *)
(* ------------------------------------------------------------------------ *)
\* the error handler has answered request r
Handled(r) == escaped[r] # NoError /\ pc[r] = "done"

Generic500 == Json(500, Obj([error |-> Txt("Internal Server Error")]))

C19_AsStated ==
  \A r \in Reqs :
    Handled(r) =>
      /\ Ran(r, "errorHandler")
      /\ Len(sent[r]) = 1
      /\ mode # "development" =>
           /\ sent[r][1] = Generic500
           /\ \E i \in 1..Len(log[r]) :
                /\ log[r][i].level = "error"
                /\ log[r][i].data = [error |-> escaped[r]]
      /\ sent[r][1] # Generic500 => mode = "development"

(* ------------------------------------------------------------------------ *)
(* C20: every failure response the backend writes, whether the middleware  *)
(* adapter, the route adapter or the top-level error handler writes it, is *)
(* a JSON object with a `message` field and an optional `code`, sent with  *)
(* the HTTP status of the failure; no failure response has another shape.  *)
(* ------------------------------------------------------------------------ *)
C20_AsStated ==
  \A r \in Reqs : \A i \in 1..Len(sent[r]) :
    LET response == sent[r][i]
    IN (~(response.status \in 200..299) /\ response.type # "html") =>
         /\ response.type = "json"
         /\ response.body.t = "object"
         /\ "message" \in DOMAIN response.body.o
         /\ DOMAIN response.body.o \subseteq {"message", "code"}

(* ------------------------------------------------------------------------ *)
(* C22: in every interleaving of concurrent requests, a request's locals   *)
(* is written only by that request's own chain: a step that changes the    *)
(* locals of request A is a middleware step of A and leaves the locals of  *)
(* every other request as they were, and every entry of A's locals is a    *)
(* truthy entry of an envelope one of A's own middlewares returned.        *)
(* ------------------------------------------------------------------------ *)
C22_LocalsOwnedByRequest ==
  [][\A r \in Reqs :
       /\ locals'[r] # locals[r] =>
            /\ pc[r] \in {"trace", "auth", "verify", "validate", "custom"}
            /\ pc'[r] # pc[r]
            /\ \A r2 \in Reqs \ {r} : locals'[r2] = locals[r2] /\ pc'[r2] = pc[r2]
       /\ \A k \in DOMAIN locals'[r] :
            \E i \in 1..Len(outcomes'[r]) :
              /\ k \in DOMAIN BodyEntries(outcomes'[r][i].response)
              /\ BodyEntries(outcomes'[r][i].response)[k] = locals'[r][k]]_vars

\* a request is suspended at the verification of its token while another
\* request, which arrived later or earlier, already holds a client in its locals
C22_Witness ==
  \E r1 \in Reqs : \E r2 \in Reqs :
    /\ r1 # r2
    /\ pc[r1] = "verify"
    /\ "client" \notin DOMAIN locals[r1]
    /\ "client" \in DOMAIN locals[r2]
    /\ locals[r1].traceId # locals[r2].traceId

(* ------------------------------------------------------------------------ *)
(* C23: obfuscateInformationInObjectDynamic(target, words) returns an      *)
(* object in which, at every nesting depth, each key listed in words has   *)
(* its value replaced by a string of '*' as long as the value's string     *)
(* form, every key not listed keeps its original value, and the target     *)
(* itself is not modified.                                                 *)
(* ------------------------------------------------------------------------ *)
\* the result the sentence describes
RECURSIVE Obfuscated(_, _)
Obfuscated(v, words) ==
  CASE v.t = "object" ->
         Obj([k \in DOMAIN v.o |->
                IF k \in words THEN Txt(Repeat(StringLength(v.o[k])))
                ELSE Obfuscated(v.o[k], words)])
    [] v.t = "array" -> Arr([i \in 1..Len(v.a) |-> Obfuscated(v.a[i], words)])
    [] OTHER -> v

C23_AsStated ==
  (call.fn = "obfuscate" /\ ret # NoResult) =>
     ret = Obfuscated(call.target, call.words)

(* ------------------------------------------------------------------------ *)
(* C24: ok(data) returns {statusCode: 200, body: data}, created(data)      *)
(* returns {statusCode: 201, body: data} and noContent() returns           *)
(* {statusCode: 204} with no body, for every data; the adapters treat all  *)
(* three as success: the middleware adapter calls next() and the route     *)
(* adapter writes the body with that status.                               *)
(* ------------------------------------------------------------------------ *)
C24_SuccessHelpers ==
  (call.fn \in {"ok", "created", "noContent"} /\ ret # NoResult) =>
     /\ call.fn = "ok" =>
          ret = [statusCode |-> 200, body |-> [t |-> "object", o |-> call.data]]
     /\ call.fn = "created" =>
          ret = [statusCode |-> 201, body |-> [t |-> "object", o |-> call.data]]
     /\ call.fn = "noContent" => ret = [statusCode |-> 204]
     /\ ret.statusCode \in 200..299
     /\ adaptMiddleware(ret, EmptyObject).next
     /\ adaptMiddleware(ret, EmptyObject).written = <<>>
     /\ Len(adaptRoute(ret)) = 1
     /\ adaptRoute(ret)[1].status = ret.statusCode
     /\ "message" \notin DOMAIN adaptRoute(ret)[1].body

\* created was called with a body that has entries
C24_Witness ==
  /\ call = [fn |-> "created", data |-> [foo |-> Txt("bar"), baz |-> Null]]
  /\ ret # NoResult
  /\ ret.statusCode = 201

(* ------------------------------------------------------------------------ *)
(* C25: the Authorization value is split at a single space into exactly a  *)
(* scheme and a token: the token handed to jwtVerify is the whole          *)
(* remainder of the header after the scheme and its separating space, so   *)
(* no part of the header is discarded before verification.                 *)
(* ------------------------------------------------------------------------ *)
\* what follows the first two atoms (the scheme and one space) of the header
Remainder(chars) == SubSeq(chars, 3, Len(chars))

C25_AsStated ==
  \A r \in Reqs :
    Ran(r, "jwtVerify") =>
      jwtInput[r] = Chars(Remainder(request[r].authorization.chars))

(* ------------------------------------------------------------------------ *)
(* C27: through any chain of the shipped middlewares (trace, auth,         *)
(* validation) the set of keys of a request's locals only grows and the    *)
(* traceId stored by the trace middleware is never changed: the traceId    *)
(* the controller passes to its service is the one the trace middleware    *)
(* generated and logged for that request.  When a middleware returns a     *)
(* non-2xx envelope, locals is left exactly as it was.                     *)
(* ------------------------------------------------------------------------ *)
C27_LocalsOnlyGrow ==
  [][\A r \in Reqs :
       /\ DOMAIN locals[r] \subseteq DOMAIN locals'[r]
       /\ "traceId" \in DOMAIN locals[r] => locals'[r].traceId = locals[r].traceId
       /\ (/\ Len(outcomes'[r]) > Len(outcomes[r])
           /\ ~(outcomes'[r][Len(outcomes'[r])].response.statusCode \in 200..299))
            => locals'[r] = locals[r]
       /\ serviceCalls'[r] # <<>> =>
            /\ \A e \in { outcomes'[r][i].response :
                           i \in { j \in 1..Len(outcomes'[r]) :
                                      outcomes'[r][j].stage = "trace" } } :
                 serviceCalls'[r][1].traceId = e.body.o.traceId
            /\ \A i \in 1..Len(log'[r]) :
                 "method" \in DOMAIN log'[r][i].data
                   => log'[r][i].data.traceId = serviceCalls'[r][1].traceId]_vars

\* one request went through two shipped middlewares to its service, another
\* was stopped by a middleware with its locals holding the traceId alone
C27_Witness ==
  /\ \E r \in Reqs :
       /\ serviceCalls[r] # <<>>
       /\ Cardinality(DOMAIN locals[r]) = 2
       /\ serviceCalls[r][1].traceId = locals[r].traceId
  /\ \E r \in Reqs :
       /\ pc[r] = "done"
       /\ serviceCalls[r] = <<>>
       /\ \E i \in 1..Len(outcomes[r]) :
            ~(outcomes[r][i].response.statusCode \in 200..299)
       /\ DOMAIN locals[r] = {"traceId"}

(* ------------------------------------------------------------------------ *)
(* C28: every 400 envelope the validation middleware produces carries a    *)
(* non-empty list of schema violation messages: it answers 400 only        *)
(* because the input violates the schema, never because of another failure *)
(* while validating (such as an adapter built without a schema), and never *)
(* with an undefined message.                                              *)
(* ------------------------------------------------------------------------ *)
C28_AsStated ==
  \A r \in Reqs : \A e \in Envelopes(r, "validate") :
    e.statusCode = 400 =>
      /\ e.body.message.t = "array"
      /\ e.body.message.a # <<>>
      /\ SchemaOf(request[r].route) # Undefined

(* ------------------------------------------------------------------------ *)
(* C29: in a controller following the module template, the clientId and   *)
(* traceId passed to the service come from locals only: client-supplied    *)
(* body, path or query fields named clientId or traceId never reach the    *)
(* service under those names, every other field of the request data does,  *)
(* and on a route without authentication clientId is undefined.  Two       *)
(* requests that differ only in such fields give the service the same      *)
(* clientId, and each its own generated traceId.                           *)
(* ------------------------------------------------------------------------ *)
\* the request data without the fields named clientId and traceId
Unspoofed(req) ==
  LET data == RouteData(req)
  IN [k \in DOMAIN data \ {"clientId", "traceId"} |-> data[k]]

C29_IdentityFromLocalsOnly ==
  \A r \in Reqs :
    (request[r].route = "custom" /\ serviceCalls[r] # <<>>) =>
      LET params == serviceCalls[r][1]
      IN /\ params.clientId =
              IF "client" \in DOMAIN locals[r] THEN locals[r].client.o.id
              ELSE Undefined
         /\ params.traceId = locals[r].traceId
         /\ \E e \in Envelopes(r, "trace") : params.traceId = e.body.o.traceId
         /\ \A k \in DOMAIN Unspoofed(request[r]) :
              params[k] = Unspoofed(request[r])[k]
         /\ \A r2 \in Reqs :
              (/\ request[r2].route = "custom" /\ serviceCalls[r2] # <<>>
               /\ Unspoofed(request[r2]) = Unspoofed(request[r])
               /\ Get(locals[r2], "client") = Get(locals[r], "client"))
                => serviceCalls[r2][1].clientId = params.clientId

\* a request with forged fields and one without reached the service on a
\* route without authentication
C29_Witness ==
  \E r \in Reqs : \E r2 \in Reqs :
    /\ request[r] = Spoofed
    /\ request[r2] # Spoofed
    /\ serviceCalls[r] # <<>> /\ serviceCalls[r2] # <<>>
    /\ "client" \notin DOMAIN locals[r]
    /\ serviceCalls[r][1].clientId = Undefined
    /\ serviceCalls[r][1].name = Txt("Corte")

(* ------------------------------------------------------------------------ *)
(* C30: each controller invocation obtains its own service instance from    *)
(* the factory: two requests never share an instance, the traceId stored on *)
(* an instance stays the one of the request it serves while another request *)
(* is suspended inside its own service, and every log line a service emits  *)
(* carries the traceId of the request it is serving.                        *)
(* ------------------------------------------------------------------------ *)
\* the log records of request r that its service emitted
ServiceLines(r) ==
  { i \in 1..Len(log[r]) :
      log[r][i].msg \in {<<"Starting processing...">>, <<"Processing completed.">>} }

C30_OwnServiceInstance ==
  \A r \in Reqs :
    /\ \A i \in ServiceLines(r) : log[r][i].data.traceId = locals[r].traceId
    /\ serving[r] # 0 =>
         /\ traceIdOf[serving[r]] = locals[r].traceId
         /\ ServiceLines(r) # {}
         /\ \A r2 \in Reqs \ {r} : serving[r2] # serving[r]

\* one request has completed its service and logged, after a second request
\* entered its own service and while that one is still suspended in it
C30_Witness ==
  \E r \in Reqs : \E r2 \in Reqs \ {r} :
    /\ pc[r] = "done" /\ pc[r2] = "service"
    /\ serving[r] < serving[r2]
    /\ \E i \in ServiceLines(r) : log[r][i].msg = <<"Processing completed.">>
    /\ ServiceLines(r2) # {}
    /\ locals[r].traceId # locals[r2].traceId

(* ------------------------------------------------------------------------ *)
(* C26: start-up ordering as stated: the server never listens while the     *)
(* versioned routes are unregistered, so no request for /api/v1/health is   *)
(* answered by anything but its controller.                                 *)
(* ------------------------------------------------------------------------ *)
C26_AsStated ==
  /\ server = "listening" => registered
  /\ \A r \in Reqs :
       (request[r].route = "health" /\ pc[r] = "done") =>
         /\ Ran(r, "controller")
         /\ \A i \in 1..Len(sent[r]) : sent[r][i].status # 404

(* ------------------------------------------------------------------------ *)
(* C21: graceful shutdown.  Once SIGTERM has been handled no new request is *)
(* accepted and the server never listens again; the requests that were in   *)
(* flight at that moment keep running, and shutdown finishes, and the       *)
(* process exits, only after each of them has received its one response;    *)
(* a shutdown that began does end with the exit of the process.  A SIGTERM  *)
(* that arrives before the server listens ends the process with no request  *)
(* ever accepted.                                                           *)
(* ------------------------------------------------------------------------ *)
Stopping == server \in {"closing", "closed", "exited", "crashed"}

C21_GracefulShutdown ==
  /\ [][/\ Stopping =>
            /\ Stopping'
            /\ \A r \in Reqs : pc[r] = "idle" => pc'[r] = "idle"
        /\ (server' = "closed" /\ server # "closed") =>
            /\ server = "closing"
            /\ \A r \in pending : pc[r] = "done" /\ Len(sent[r]) = 1
        /\ (server' = "exited" /\ server # "exited") => server = "closed"
        /\ (server' = "crashed" /\ server # "crashed") =>
            \A r \in Reqs : pc[r] = "idle"
        /\ server \in {"closed", "exited"} =>
            /\ InFlight = {}
            /\ \A r \in Reqs : sent'[r] = sent[r]]_vars
  /\ (server = "closing") ~> (server = "exited")

\* the process exited after a SIGTERM that found one request in flight: that
\* request was answered, a later one was never accepted
C21_Witness ==
  /\ server = "exited"
  /\ pending # {}
  /\ \A r \in pending : pc[r] = "done" /\ Len(sent[r]) = 1
  /\ \E r \in Reqs : pc[r] = "idle"

====
